---- MODULE Spec2Model ----
(***************************************************************************)
(* A model of src/main.py: the hospital review scraper.                    *)
(*                                                                         *)
(*   SpecValidator  ReviewValidator.validate_review called on arbitrary    *)
(*                  records, one shared instance (main.py 46-72).          *)
(*   Spec           main(): browser bootstrap, search, listing collection, *)
(*                  the per-listing loop and the teardown (main.py         *)
(*                  544-594); the collectors appear by their outcome at    *)
(*                  the call boundary (value returned or exception),       *)
(*                  scrape_reviews with the calls it makes on main's       *)
(*                  validator and the clicks it issues.                    *)
(*   SpecCollect    the control flow inside get_hospital_list and          *)
(*                  scrape_reviews (main.py 150-235, 244-488): scroll      *)
(*                  loops, selector fallback chains, extraction loops.     *)
(*                                                                         *)
(* The browser is the environment: an awaited browser call either returns  *)
(* a value drawn from a small set or raises PlaywrightError                *)
(* (PlaywrightTimeoutError is a subclass of it).  The calls of the         *)
(* teardown (main.py 589-594) are browser calls like the others: one that  *)
(* raises leaves the finally block, so that main() raises and the rest of  *)
(* the teardown is not run.                                                *)
(***************************************************************************)
EXTENDS Naturals, Sequences, FiniteSets, TLC

VARIABLES
    \* ---- ReviewValidator (one instance per run) ----
    seen_reviews,   \* self.seen_reviews: the set of review hashes
    review,         \* the argument of the last validate_review call
    result,         \* what the last call returned: None or Some(review)
    logged,         \* the rejection the last call logged ("" when accepted)
    prev_seen,      \* seen_reviews on entry to the last call
    accepted,       \* history: the records returned non-None, in order
    calls           \* number of validate_review calls made

VARIABLES
    \* ---- main(), its locals and what it leaves behind ----
    pc,             \* the statement of main() about to run
    driver,         \* the Playwright driver: "none", "running", "stopped"
    chromium,       \* the launched browser: "none", "running", "closed"
    playwright,     \* main's local playwright: FALSE is None
    browser,        \* main's local browser: FALSE is None
    page,           \* main's local page: FALSE is None
    hospitals,      \* the listings returned by get_hospital_list: records
                    \* of href and name
    idx,            \* position of the for loop over hospitals (1-based)
    hospital_reviews, \* number of validated reviews of the current listing
    list_file,      \* the listing CSV: "none", "written", "failed"
    review_files,   \* listings whose review CSV has been written
    write_failed,   \* listings whose review CSV write raised (swallowed)
    nav_log,        \* listings navigated to (page.goto issued), in order
    failed,         \* listings whose cycle ended in the handler at 581
    empty_result,   \* listings for which scrape_reviews returned []
    nonempty_result,\* listings for which scrape_reviews returned reviews
    warned_no_hospitals, \* the warning of line 562 was logged
    main_error,     \* the handler at 585 ran
    main_raised     \* a call of the finally block raised: main() raises

VARIABLES
    \* ---- one call of get_hospital_list or scrape_reviews ----
    fn,             \* the function running: "get_hospital_list",
                    \* "scrape_reviews", or "" when neither is
    cpc,            \* the statement of it about to run
    max_hospitals,  \* parameter of get_hospital_list
    max_reviews,    \* parameter of scrape_reviews
    hospital_name,  \* parameter of scrape_reviews
    scroll_i,       \* the i of the scroll loop (for i in range(5))
    scroll_attempts,\* scroll attempts begun so far in this call
    sel,            \* index into the selector list being walked (1-based)
    count,          \* the local count: the last element count read
    found_reviews,  \* the local found_reviews of scrape_reviews
    tried,          \* outcome of each review_element_selectors attempt so far
    used_selector,  \* index of the selector kept, 0 for None
    resolved,       \* control has reached the element-resolution step
    enough_at,      \* scroll attempt at which the probe first counted at
                    \* least max_reviews items, 0 if it has not
    ei,             \* index of the extraction loop
    hl_hospitals,   \* the local hospitals list of get_hospital_list
    reviews,        \* the local reviews list of scrape_reviews
    caught          \* the outer handler that ran: "", "PlaywrightError"

VARIABLES
    \* ---- what the collectors do to the remote service and to the page ----
    throttled,      \* RateLimiter.wait() has returned since the last
                    \* remote-affecting action (navigation or click)
    unthrottled,    \* some remote-affecting action was performed with no
                    \* RateLimiter.wait() since the one before it
    skipped         \* indexes of the matched listing elements that
                    \* get_hospital_list passed over

vvars == <<seen_reviews, review, result, logged, prev_seen, accepted, calls>>

mvars == <<pc, driver, chromium, playwright, browser, page, hospitals, idx,
           hospital_reviews, list_file, review_files, write_failed, nav_log,
           failed, empty_result, nonempty_result, warned_no_hospitals,
           main_error, main_raised>>

cvars == <<fn, cpc, max_hospitals, max_reviews, hospital_name, scroll_i,
           scroll_attempts, sel, count, found_reviews, tried, used_selector,
           resolved, enough_at, ei, hl_hospitals, reviews, caught>>

evars == <<throttled, unthrottled, skipped>>

vars == <<vvars, mvars, cvars, evars>>

-----------------------------------------------------------------------------
(* Python values *)

None == <<>>
Some(v) == <<v>>

-----------------------------------------------------------------------------
(* ReviewValidator, main.py 46-72 *)

\* Number of validate_review calls explored.
MaxCalls == 3

\* main.py 61: len(review["Review"]) < 5
MinReviewLen == 5

required_fields == <<"Hospital", "Reviewer", "Rating", "Review">>

\* Field values the records are drawn from.  "X:Y" / "Y:Z" contain the
\* separator of the hashed f-string; "Good" and "Great" sit on either side
\* of the length limit.
FieldValues(f) ==
    CASE f = "Hospital" -> {"", "X", "X:Y"}
      [] f = "Reviewer" -> {"", "Z", "Y:Z"}
      [] f = "Rating"   -> {"", "5 stars"}
      [] f = "Review"   -> {"", "ok", "Good", "Great", "Great staff!"}

AllValues == UNION {FieldValues(required_fields[i]) : i \in 1..4}

FieldNames == {required_fields[i] : i \in 1..4}

\* A record is a dict: any of the four keys may be absent.
Records ==
    UNION { {r \in [F -> AllValues] : \A f \in F : r[f] \in FieldValues(f)}
            : F \in SUBSET FieldNames }

\* main.py 56: field not in review or not review[field]
FieldMissing(r, f) == f \notin DOMAIN r \/ r[f] = ""

\* main.py 55-58: the loop over required_fields returns None at the first
\* missing field.
MissingFieldNoRating(r) ==
    \E i \in 1..4 : required_fields[i] # "Rating" /\ FieldMissing(r, required_fields[i])

MissingField(r) == \E i \in 1..4 : FieldMissing(r, required_fields[i])

\* main.py 61
TooShortOffByOne(r) == Len(r["Review"]) < MinReviewLen - 1

TooShort(r) == Len(r["Review"]) < MinReviewLen

\* main.py 66: f"{review['Hospital']}:{review['Reviewer']}:{review['Review']}"
FormatKey(r) == r["Hospital"] \o ":" \o r["Reviewer"] \o ":" \o r["Review"]

\* main.py 66: hash(str).  Within one process equal strings hash equal; the
\* 64-bit SipHash is taken to be collision-free on the strings explored, so
\* a hash is represented by the string hashed.
Hash(s) == s

review_hash(r) == Hash(FormatKey(r))

\* main.py 51-72: the rejection logged, "" when the record is accepted.
Rejection(r, seen) ==
    IF MissingField(r) THEN "missing"
    ELSE IF TooShort(r) THEN "short"
    ELSE IF review_hash(r) \in seen THEN "duplicate"
    ELSE ""

\* main.py 71: self.seen_reviews.add(review_hash)
SeenAfterNoAdd(r, seen) == seen

SeenAfter(r, seen) ==
    IF Rejection(r, seen) = "" THEN seen \cup {review_hash(r)} ELSE seen

\* One call validator.validate_review(r).
validate_review(r) ==
    /\ review' = r
    /\ prev_seen' = seen_reviews
    /\ logged' = Rejection(r, seen_reviews)
    /\ result' = IF Rejection(r, seen_reviews) = "" THEN Some(r) ELSE None
    /\ seen_reviews' = SeenAfter(r, seen_reviews)
    /\ accepted' = IF Rejection(r, seen_reviews) = ""
                   THEN Append(accepted, r) ELSE accepted
    /\ calls' = calls + 1

\* ReviewValidator.__init__, main.py 48-49
ValidatorInit ==
    /\ seen_reviews = {}
    /\ review = [f \in {} |-> ""]
    /\ result = None
    /\ logged = ""
    /\ prev_seen = {}
    /\ accepted = <<>>
    /\ calls = 0

\* Neither collector running.
CollectIdle ==
    /\ fn = "" /\ cpc = "idle"
    /\ max_hospitals = 0 /\ max_reviews = 0 /\ hospital_name = ""
    /\ scroll_i = 0 /\ scroll_attempts = 0 /\ sel = 0 /\ count = 0
    /\ found_reviews = FALSE /\ tried = <<>> /\ used_selector = 0
    /\ resolved = FALSE /\ enough_at = 0 /\ ei = 0
    /\ hl_hospitals = <<>> /\ reviews = <<>> /\ caught = ""
    /\ throttled = FALSE /\ unthrottled = FALSE /\ skipped = {}

\* main() not running.
MainIdle ==
    /\ pc = "idle"
    /\ driver = "none" /\ chromium = "none"
    /\ playwright = FALSE /\ browser = FALSE /\ page = FALSE
    /\ hospitals = <<>> /\ idx = 0 /\ hospital_reviews = 0
    /\ list_file = "none" /\ review_files = {} /\ write_failed = {}
    /\ nav_log = <<>> /\ failed = {}
    /\ empty_result = {} /\ nonempty_result = {}
    /\ warned_no_hospitals = FALSE /\ main_error = FALSE
    /\ main_raised = FALSE

ValidatorCall ==
    /\ calls < MaxCalls
    /\ \E r \in Records : validate_review(r)
    /\ UNCHANGED <<mvars, cvars, evars>>

NextValidator == ValidatorCall

InitValidator == ValidatorInit /\ MainIdle /\ CollectIdle

SpecValidator == InitValidator /\ [][NextValidator]_vars

Triple(r) == <<r["Hospital"], r["Reviewer"], r["Review"]>>

\* C1: over any sequence of validate_review calls on one validator, no two
\* accepted records have the same (Hospital, Reviewer, Review) triple.
C1_NoDuplicateAccepted ==
    \A i, j \in 1..Len(accepted) :
        i # j => Triple(accepted[i]) # Triple(accepted[j])

\* A record was accepted, then passed again and rejected as a duplicate.
C1_Witness ==
    /\ Len(accepted) >= 1
    /\ logged = "duplicate"
    /\ \E i \in 1..Len(accepted) : accepted[i] = review

\* C2: a record with any of Hospital, Reviewer, Rating, Review absent or
\* empty is rejected, and rejected as a missing field whatever its length
\* and whatever the seen set holds.
C2_MissingFieldRejected ==
    (calls > 0 /\ \E f \in FieldNames : FieldMissing(review, f))
        => /\ result = None
           /\ logged = "missing"
           /\ seen_reviews = prev_seen

\* A record with an empty Rating whose other fields repeat an accepted
\* record: rejected as missing, not as a duplicate.
C2_Witness ==
    /\ calls > 0
    /\ DOMAIN review = FieldNames
    /\ review["Rating"] = ""
    /\ Len(review["Review"]) >= MinReviewLen
    /\ review["Hospital"] # "" /\ review["Reviewer"] # ""
    /\ review_hash(review) \in prev_seen
    /\ result = None

\* C3: with all four fields non-empty, a text of fewer than 5 characters is
\* rejected, and a text of 5 or more characters whose fingerprint is not in
\* the seen set is accepted and returned.
C3_LengthThenAccept ==
    (calls > 0 /\ \A f \in FieldNames : ~FieldMissing(review, f))
        => /\ Len(review["Review"]) < 5 => result = None
           /\ (Len(review["Review"]) >= 5 /\ review_hash(review) \notin prev_seen)
                 => (result = Some(review) /\ review_hash(review) \in seen_reviews)

\* "ok" was rejected after "Great staff!" had been accepted first-seen.
C3_Witness ==
    /\ calls > 1
    /\ DOMAIN review = FieldNames
    /\ review["Review"] = "ok" /\ review["Rating"] # ""
    /\ review["Hospital"] # "" /\ review["Reviewer"] # ""
    /\ result = None
    /\ \E i \in 1..Len(accepted) : accepted[i]["Review"] = "Great staff!"

\* The records accepted before the last call: validate_review adds at most
\* the record it was given, at the end.
PrevAccepted ==
    IF result = None THEN accepted
    ELSE SubSeq(accepted, 1, Len(accepted) - 1)

\* C12: a record that passes the field and length checks is rejected as a
\* duplicate only if a record accepted before it has the same Hospital, the
\* same Reviewer and the same Review; when its triple differs from that of
\* every record accepted before, it is accepted.
C12_DuplicateOnlyIfSameTriple ==
    (calls > 0 /\ ~MissingField(review) /\ ~TooShort(review)) =>
        /\ logged = "duplicate" =>
              \E k \in 1..Len(PrevAccepted) :
                  Triple(PrevAccepted[k]) = Triple(review)
        /\ (\A k \in 1..Len(PrevAccepted) :
               Triple(PrevAccepted[k]) # Triple(review))
           => result = Some(review)

\* The converse, which the code keeps: a record whose triple was accepted
\* before is rejected as a duplicate.
SameTripleRejected ==
    (calls > 0 /\ ~MissingField(review) /\ ~TooShort(review)
       /\ \E k \in 1..Len(PrevAccepted) :
             Triple(PrevAccepted[k]) = Triple(review))
    => logged = "duplicate"

-----------------------------------------------------------------------------
(* What scrape_reviews reads from a review element, main.py 237-242, 401-470 *)

\* main.py 237-242: emoji removed, whitespace runs collapsed to one space,
\* ends trimmed.  Given on the raw texts drawn below; every other string the
\* model passes to it is already clean and is returned as it is.
clean_text(t) ==
    CASE t = " Z "            -> "Z"
      [] t = "Great  staff!\n" -> "Great staff!"
      [] t = " \n"            -> ""
      [] OTHER                -> t

\* What one review element yields to the extraction of 402-461: whether a
\* browser call outside the inner bare excepts raises (element_handle), the
\* reviewer name and rating found by the fallback chains ("" when none gave
\* a text), the text found by the text chain, and for an empty text what the
\* last-resort element.inner_text() gives ("raises" when it raises).
ReviewOutcomes ==
    { [error |-> TRUE,  reviewer |-> "", rating |-> "", text |-> "",
       inner_text |-> "raises"],
      [error |-> FALSE, reviewer |-> " Z ", rating |-> "5 stars",
       text |-> "Great  staff!\n", inner_text |-> "raises"],
      [error |-> FALSE, reviewer |-> " Z ", rating |-> "5 stars",
       text |-> "ok", inner_text |-> "raises"],
      [error |-> FALSE, reviewer |-> "", rating |-> "", text |-> "",
       inner_text |-> "raises"],
      [error |-> FALSE, reviewer |-> "", rating |-> "5 stars", text |-> "",
       inner_text |-> "Great  staff!\n"],
      [error |-> FALSE, reviewer |-> " Z ", rating |-> "", text |-> "",
       inner_text |-> " \n"] }

\* main.py 417-418
Reviewer(ro, e) ==
    IF ro.reviewer = "" THEN "Anonymous Reviewer " \o ToString(e + 1)
    ELSE ro.reviewer

\* main.py 434-435
Rating(ro) == IF ro.rating = "" THEN "No rating" ELSE ro.rating

\* main.py 449-454
ReviewText(ro) ==
    IF ro.text # "" THEN ro.text
    ELSE IF ro.inner_text = "raises" THEN "No review text available"
    ELSE ro.inner_text

\* main.py 456-461
ReviewRecord(name, ro, e) ==
    [Hospital |-> name,
     Reviewer |-> clean_text(Reviewer(ro, e)),
     Rating   |-> Rating(ro),
     Review   |-> clean_text(ReviewText(ro))]

ReviewData(ro, e) == ReviewRecord(hospital_name, ro, e)

\* RateLimiter.wait, main.py 33-44: sleeps until a delay drawn from
\* [min_delay, max_delay] has passed since the last call returned, then
\* stamps last_request_time.  What is kept of it is that a wait now stands
\* before whatever remote-affecting action comes next.
RateLimiterWait == throttled' = TRUE

\* A remote-affecting action (page.goto, a click): it uses up the wait that
\* stood before it, and is recorded when there was none.
RemoteAction ==
    /\ unthrottled' = (unthrottled \/ ~throttled)
    /\ throttled' = FALSE

\* rate_limiter.wait() immediately followed by the remote-affecting action
\* it stands before (main.py 101-106, 132-138, 266-267).
ThrottledAction ==
    /\ unthrottled' = unthrottled
    /\ throttled' = FALSE

\* The validator as a value, for the calls scrape_reviews makes on it within
\* one call of its own; returned is the list scrape_reviews builds.
ValidatorState ==
    [seen_reviews |-> seen_reviews, review |-> review, result |-> result,
     logged |-> logged, prev_seen |-> prev_seen, accepted |-> accepted,
     calls |-> calls, returned |-> <<>>]

\* main.py 464-466: validator.validate_review(review_data), the record
\* appended to reviews when it is returned.
ValidateStep(st, r) ==
    [seen_reviews |-> SeenAfter(r, st.seen_reviews),
     review       |-> r,
     result       |-> IF Rejection(r, st.seen_reviews) = ""
                      THEN Some(r) ELSE None,
     logged       |-> Rejection(r, st.seen_reviews),
     prev_seen    |-> st.seen_reviews,
     accepted     |-> IF Rejection(r, st.seen_reviews) = ""
                      THEN Append(st.accepted, r) ELSE st.accepted,
     calls        |-> st.calls + 1,
     returned     |-> IF Rejection(r, st.seen_reviews) = ""
                      THEN Append(st.returned, r) ELSE st.returned]

\* main.py 401-470: the extraction loop over the elements ros[e + 1], ...;
\* an element whose extraction raises a browser error is skipped.
RECURSIVE ExtractReviews(_, _, _, _)
ExtractReviews(name, ros, e, st) ==
    IF e >= Len(ros) THEN st
    ELSE ExtractReviews(name, ros, e + 1,
                        IF ros[e + 1].error THEN st
                        ELSE ValidateStep(st, ReviewRecord(name, ros[e + 1], e)))

-----------------------------------------------------------------------------
(* main(), main.py 544-594 *)

\* Largest number of listings get_hospital_list is taken to return.
MaxListings == 2

\* Largest number of review elements scrape_reviews is taken to find for
\* one listing, and largest number of records one run of main passes to its
\* validator.
MaxValidated == 1

\* The name get_hospital_list reads for the i-th listing: the listings all
\* have the same name, or each has its own.
HospitalName(i, same) == IF same THEN "H1" ELSE "H" \o ToString(i)

\* The runs of review elements of one listing.
ElementRuns ==
    UNION {[1..n -> ReviewOutcomes] : n \in 0..MaxValidated}

\* main.py 550: playwright = browser = page = None; about to enter the try.
MainInit ==
    /\ pc = "init_start"
    /\ driver = "none" /\ chromium = "none"
    /\ playwright = FALSE /\ browser = FALSE /\ page = FALSE
    /\ hospitals = <<>> /\ idx = 0 /\ hospital_reviews = 0
    /\ list_file = "none" /\ review_files = {} /\ write_failed = {}
    /\ nav_log = <<>> /\ failed = {}
    /\ empty_result = {} /\ nonempty_result = {}
    /\ warned_no_hospitals = FALSE /\ main_error = FALSE
    /\ main_raised = FALSE

\* main.py 585-587: except Exception: log; then the finally block.
MainExcept ==
    /\ main_error' = TRUE
    /\ pc' = "finally_page"

\* main.py 77: async_playwright().start(); a failure is re-raised at 94-96.
InitStart ==
    /\ pc = "init_start"
    /\ \/ /\ driver' = "running"
          /\ pc' = "init_launch"
          /\ UNCHANGED main_error
       \/ /\ MainExcept
          /\ UNCHANGED driver
    /\ UNCHANGED <<chromium, playwright, browser, page, hospitals, idx,
                   hospital_reviews, list_file, review_files, write_failed,
                   nav_log, failed, empty_result, nonempty_result,
                   warned_no_hospitals>>
    /\ UNCHANGED <<main_raised, vvars, cvars, evars>>

\* main.py 78-81: playwright.chromium.launch(...)
InitLaunch ==
    /\ pc = "init_launch"
    /\ \/ /\ chromium' = "running"
          /\ pc' = "init_context"
          /\ UNCHANGED main_error
       \/ /\ MainExcept
          /\ UNCHANGED chromium
    /\ UNCHANGED <<driver, playwright, browser, page, hospitals, idx,
                   hospital_reviews, list_file, review_files, write_failed,
                   nav_log, failed, empty_result, nonempty_result,
                   warned_no_hospitals>>
    /\ UNCHANGED <<main_raised, vvars, cvars, evars>>

\* main.py 82-91: browser.new_context(...), context.add_init_script(...)
InitContext ==
    /\ pc = "init_context"
    /\ \/ /\ pc' = "init_page"
          /\ UNCHANGED main_error
       \/ MainExcept
    /\ UNCHANGED <<driver, chromium, playwright, browser, page, hospitals, idx,
                   hospital_reviews, list_file, review_files, write_failed,
                   nav_log, failed, empty_result, nonempty_result,
                   warned_no_hospitals>>
    /\ UNCHANGED <<main_raised, vvars, cvars, evars>>

\* main.py 92-93 and 552: context.new_page(); on success the three handles
\* are returned and only then bound to main's locals.
InitPage ==
    /\ pc = "init_page"
    /\ \/ /\ playwright' = TRUE /\ browser' = TRUE /\ page' = TRUE
          /\ pc' = "search"
          /\ UNCHANGED main_error
       \/ /\ MainExcept
          /\ UNCHANGED <<playwright, browser, page>>
    /\ UNCHANGED <<driver, chromium, hospitals, idx,
                   hospital_reviews, list_file, review_files, write_failed,
                   nav_log, failed, empty_result, nonempty_result,
                   warned_no_hospitals>>
    /\ UNCHANGED <<main_raised, vvars, cvars, evars>>

\* main.py 555, 98-128: search_google_maps waits on the rate limiter and
\* issues page.goto; it returns, or re-raises a timeout or browser error.
SearchGoogleMaps ==
    /\ pc = "search"
    /\ ThrottledAction
    /\ \/ /\ pc' = "collect"
          /\ UNCHANGED main_error
       \/ MainExcept
    /\ UNCHANGED <<driver, chromium, playwright, browser, page, hospitals, idx,
                   hospital_reviews, list_file, review_files, write_failed,
                   nav_log, failed, empty_result, nonempty_result,
                   warned_no_hospitals>>
    /\ UNCHANGED <<main_raised, vvars, cvars, skipped>>

\* main.py 558, 150-235: get_hospital_list catches its browser errors and
\* returns the listings gathered, possibly none.
GetHospitalList ==
    /\ pc = "collect"
    /\ \E n \in 0..MaxListings : \E same \in BOOLEAN :
          hospitals' = [i \in 1..n |->
                           [href |-> i, name |-> HospitalName(i, same)]]
    /\ pc' = "check"
    /\ UNCHANGED <<driver, chromium, playwright, browser, page, idx,
                   hospital_reviews, list_file, review_files, write_failed,
                   nav_log, failed, empty_result, nonempty_result,
                   warned_no_hospitals, main_error>>
    /\ UNCHANGED <<main_raised, vvars, cvars, evars>>

\* main.py 561-563: if not hospitals: warning; return (through finally).
CheckHospitals ==
    /\ pc = "check"
    /\ IF hospitals = <<>>
       THEN /\ warned_no_hospitals' = TRUE
            /\ pc' = "finally_page"
       ELSE /\ pc' = "save_list"
            /\ UNCHANGED warned_no_hospitals
    /\ UNCHANGED <<driver, chromium, playwright, browser, page, hospitals, idx,
                   hospital_reviews, list_file, review_files, write_failed,
                   nav_log, failed, empty_result, nonempty_result, main_error>>
    /\ UNCHANGED <<main_raised, vvars, cvars, evars>>

\* main.py 566, 512-542: save_hospital_list_to_csv returns at once on an
\* empty list; it writes the file, or logs the exception of a failed write.
SaveHospitalList ==
    /\ pc = "save_list"
    /\ IF hospitals = <<>>
       THEN UNCHANGED list_file
       ELSE \/ list_file' = "written"
            \/ list_file' = "failed"
    /\ idx' = 1
    /\ pc' = "loop"
    /\ UNCHANGED <<driver, chromium, playwright, browser, page, hospitals,
                   hospital_reviews, review_files, write_failed,
                   nav_log, failed, empty_result, nonempty_result,
                   warned_no_hospitals, main_error>>
    /\ UNCHANGED <<main_raised, vvars, cvars, evars>>

\* main.py 569: for hospital in hospitals
LoopHead ==
    /\ pc = "loop"
    /\ pc' = IF idx <= Len(hospitals) THEN "navigate" ELSE "finally_page"
    /\ UNCHANGED <<driver, chromium, playwright, browser, page, hospitals, idx,
                   hospital_reviews, list_file, review_files, write_failed,
                   nav_log, failed, empty_result, nonempty_result,
                   warned_no_hospitals, main_error>>
    /\ UNCHANGED <<main_raised, vvars, cvars, evars>>

\* main.py 581-583: except Exception: log; continue
ListingExceptAbort ==
    /\ failed' = failed \cup {hospitals[idx]}
    /\ UNCHANGED idx
    /\ pc' = "finally_page"

ListingExcept ==
    /\ failed' = failed \cup {hospitals[idx]}
    /\ idx' = idx + 1
    /\ pc' = "loop"

\* main.py 572, 130-148: search_google_location waits on the rate limiter,
\* issues page.goto(href) and returns, or re-raises the timeout or browser
\* error.
Navigate ==
    /\ pc = "navigate"
    /\ nav_log' = Append(nav_log, hospitals[idx])
    /\ ThrottledAction
    /\ \/ /\ pc' = "scrape"
          /\ UNCHANGED <<idx, failed>>
       \/ ListingExcept
    /\ UNCHANGED <<driver, chromium, playwright, browser, page, hospitals,
                   hospital_reviews, list_file, review_files, write_failed,
                   empty_result, nonempty_result,
                   warned_no_hospitals, main_error>>
    /\ UNCHANGED <<main_raised, vvars, cvars, skipped>>

\* main.py 573, 244-488: scrape_reviews on the listing's page, with main's
\* validator.  On the way to the reviews it clicks the Reviews tab after a
\* wait, or a reviews trigger with no wait, or nothing; every element it
\* extracts goes through validator.validate_review, and the records returned
\* by it are the reviews returned, possibly none (a browser error of the
\* collection as a whole is caught inside and returns what was gathered).
\* An exception that is not a PlaywrightError escapes it.
ScrapeReviews ==
    /\ pc = "scrape"
    /\ \/ ThrottledAction
       \/ RemoteAction
       \/ UNCHANGED <<throttled, unthrottled>>
    /\ \E ros \in ElementRuns :
          LET st == ExtractReviews(hospitals[idx].name, ros, 0, ValidatorState)
          IN  /\ st.calls <= MaxValidated
              /\ seen_reviews' = st.seen_reviews
              /\ review' = st.review
              /\ result' = st.result
              /\ logged' = st.logged
              /\ prev_seen' = st.prev_seen
              /\ accepted' = st.accepted
              /\ calls' = st.calls
              /\ \/ /\ hospital_reviews' = Len(st.returned)
                    /\ empty_result' =
                          IF st.returned = <<>>
                          THEN empty_result \cup {hospitals[idx]}
                          ELSE empty_result
                    /\ nonempty_result' =
                          IF st.returned # <<>>
                          THEN nonempty_result \cup {hospitals[idx]}
                          ELSE nonempty_result
                    /\ pc' = "save_reviews"
                    /\ UNCHANGED <<idx, failed>>
                 \/ /\ ListingExcept
                    /\ UNCHANGED <<hospital_reviews, empty_result,
                                   nonempty_result>>
    /\ UNCHANGED <<driver, chromium, playwright, browser, page, hospitals,
                   list_file, review_files, write_failed, nav_log,
                   warned_no_hospitals, main_error>>
    /\ UNCHANGED <<main_raised, cvars, skipped>>

\* main.py 576, 490-510: save_reviews_to_csv returns at once on an empty
\* list; it writes the file, or logs the exception of a failed write.
SaveReviewsAlways ==
    /\ pc = "save_reviews"
    /\ review_files' = review_files \cup {hospitals[idx]}
    /\ pc' = "sleep"
    /\ UNCHANGED <<driver, chromium, playwright, browser, page, hospitals, idx,
                   hospital_reviews, list_file, write_failed, nav_log, failed,
                   empty_result, nonempty_result,
                   warned_no_hospitals, main_error>>
    /\ UNCHANGED <<main_raised, vvars, cvars, evars>>

SaveReviewsDropped ==
    /\ pc = "save_reviews"
    /\ pc' = "sleep"
    /\ UNCHANGED <<driver, chromium, playwright, browser, page, hospitals, idx,
                   hospital_reviews, list_file, review_files, write_failed,
                   nav_log, failed, empty_result, nonempty_result,
                   warned_no_hospitals, main_error>>
    /\ UNCHANGED <<main_raised, vvars, cvars, evars>>

SaveReviews ==
    /\ pc = "save_reviews"
    /\ IF hospital_reviews = 0
       THEN UNCHANGED <<review_files, write_failed>>
       ELSE \/ /\ review_files' = review_files \cup {hospitals[idx]}
               /\ UNCHANGED write_failed
            \/ /\ write_failed' = write_failed \cup {hospitals[idx]}
               /\ UNCHANGED review_files
    /\ pc' = "sleep"
    /\ UNCHANGED <<driver, chromium, playwright, browser, page, hospitals, idx,
                   hospital_reviews, list_file, nav_log, failed,
                   empty_result, nonempty_result,
                   warned_no_hospitals, main_error>>
    /\ UNCHANGED <<main_raised, vvars, cvars, evars>>

\* main.py 579: asyncio.sleep(random.uniform(3.0, 7.0)); next iteration.
Sleep ==
    /\ pc = "sleep"
    /\ idx' = idx + 1
    /\ pc' = "loop"
    /\ UNCHANGED <<driver, chromium, playwright, browser, page, hospitals,
                   hospital_reviews, list_file, review_files, write_failed,
                   nav_log, failed, empty_result, nonempty_result,
                   warned_no_hospitals, main_error>>
    /\ UNCHANGED <<main_raised, vvars, cvars, evars>>

\* main.py 589-590: if page: await page.wait_for_timeout(2000).  When the
\* call raises, the exception leaves the finally block: main() raises and
\* neither browser.close() nor playwright.stop() is called.
FinallyPage ==
    /\ pc = "finally_page"
    /\ \/ /\ pc' = "finally_browser"
          /\ UNCHANGED main_raised
       \/ /\ page
          /\ main_raised' = TRUE
          /\ pc' = "done"
    /\ UNCHANGED <<driver, chromium, playwright, browser, page, hospitals, idx,
                   hospital_reviews, list_file, review_files, write_failed,
                   nav_log, failed, empty_result, nonempty_result,
                   warned_no_hospitals, main_error>>
    /\ UNCHANGED <<vvars, cvars, evars>>

\* main.py 591-592: if browser: await browser.close().  When the call
\* raises, main() raises and playwright.stop() is not called; what is left
\* of the browser after a close that raised is the environment's.
FinallyBrowser ==
    /\ pc = "finally_browser"
    /\ \/ /\ chromium' = IF browser THEN "closed" ELSE chromium
          /\ pc' = "finally_playwright"
          /\ UNCHANGED main_raised
       \/ /\ browser
          /\ chromium' \in {"running", "closed"}
          /\ main_raised' = TRUE
          /\ pc' = "done"
    /\ UNCHANGED <<driver, playwright, browser, page, hospitals, idx,
                   hospital_reviews, list_file, review_files, write_failed,
                   nav_log, failed, empty_result, nonempty_result,
                   warned_no_hospitals, main_error>>
    /\ UNCHANGED <<vvars, cvars, evars>>

\* main.py 593-594: if playwright: await playwright.stop().  When the call
\* raises, main() raises; what is left of the driver after a stop that
\* raised is the environment's.
FinallyPlaywright ==
    /\ pc = "finally_playwright"
    /\ \/ /\ driver' = IF playwright THEN "stopped" ELSE driver
          /\ UNCHANGED main_raised
       \/ /\ playwright
          /\ driver' \in {"running", "stopped"}
          /\ main_raised' = TRUE
    /\ pc' = "done"
    /\ UNCHANGED <<chromium, playwright, browser, page, hospitals, idx,
                   hospital_reviews, list_file, review_files, write_failed,
                   nav_log, failed, empty_result, nonempty_result,
                   warned_no_hospitals, main_error>>
    /\ UNCHANGED <<vvars, cvars, evars>>

Next ==
    \/ InitStart \/ InitLaunch \/ InitContext \/ InitPage
    \/ SearchGoogleMaps \/ GetHospitalList \/ CheckHospitals
    \/ SaveHospitalList \/ LoopHead \/ Navigate \/ ScrapeReviews
    \/ SaveReviews \/ Sleep
    \/ FinallyPage \/ FinallyBrowser \/ FinallyPlaywright

Init == ValidatorInit /\ MainInit /\ CollectIdle

Spec == Init /\ [][Next]_vars

Range(q) == {q[k] : k \in 1..Len(q)}

\* The cycle of listing h is over: it ended in the per-listing handler, or
\* its reviews were collected and, when there were any, the write of its
\* review file has returned (file written, or the failure logged).
CycleOver(h) ==
    \/ h \in failed
    \/ h \in empty_result
    \/ h \in nonempty_result /\ h \in review_files \cup write_failed

C5_ResourcesReleased ==
    pc = "done" => (driver # "running" /\ chromium # "running")

\* C6: listings are processed one at a time in list order: when the
\* navigation to a listing has been issued, the cycle of every listing before
\* it is over (reviews collected and the review file write returned).
C6_OneAtATime ==
    /\ Len(nav_log) <= Len(hospitals)
    /\ \A k \in 1..Len(nav_log) : nav_log[k] = hospitals[k]
    /\ \A k \in 1..Len(nav_log) : k < Len(nav_log) => CycleOver(nav_log[k])

\* The second listing is being collected after the first one's reviews were
\* written.
C6_Witness ==
    /\ pc = "scrape"
    /\ Len(nav_log) = 2
    /\ nav_log[1] \in review_files

\* Empty results skip persistence.  Zero listings: no listing file, no
\* navigation, the run goes to the teardown with main's handler not entered.
\* Zero validated reviews for a listing: no review file and no failure for
\* it, and the run still visits every listing.
EmptySkipsPersistence ==
    /\ warned_no_hospitals
          => /\ hospitals = <<>>
             /\ list_file = "none"
             /\ nav_log = <<>>
             /\ review_files = {}
             /\ ~main_error
             /\ pc \in {"finally_page", "finally_browser",
                        "finally_playwright", "done"}
    /\ (hospitals = <<>> /\ pc \notin {"init_start", "init_launch",
                                       "init_context", "init_page", "search",
                                       "collect", "check"} /\ ~main_error)
          => warned_no_hospitals
    /\ \A h \in empty_result :
          h \notin review_files /\ h \notin write_failed /\ h \notin failed
    /\ (pc = "done" /\ empty_result # {})
          => (Range(nav_log) = Range(hospitals) /\ ~main_error)

\* C7: persistence is skipped for empty results.  When listing collection
\* returns zero listings, no listing file is written, no listing is
\* navigated to, and the run ends without error: main's handler is not
\* entered and main() does not raise.  When a listing yields zero validated
\* reviews, no review file is written for it and the run continues.
C7_EmptySkipsPersistence ==
    /\ EmptySkipsPersistence
    /\ (pc = "done" /\ warned_no_hospitals) => ~main_raised

\* The run ended after a listing whose only review element was rejected by
\* the validator: no file was written for it.
ZeroValidatedNoFile ==
    /\ pc = "done"
    /\ hospitals # <<>>
    /\ hospitals[1] \in empty_result
    /\ calls = 1 /\ result = None /\ logged \in {"short", "missing"}
    /\ review_files = {}

\* The run ended on an empty listing collection.
ZeroListingsRunEnded == pc = "done" /\ warned_no_hospitals

-----------------------------------------------------------------------------
(* get_hospital_list, main.py 150-235 *)

\* Largest value of max_hospitals and of max_reviews explored.
MaxParam == 2

\* Largest element count a locator reports.
MaxCount == 3

\* main.py 159: for i in range(5)
HospitalScrolls == 5

Min(a, b) == IF a <= b THEN a ELSE b

\* main.py 230-233: the outer handlers of get_hospital_list log the timeout
\* or browser error; the function then returns what it has gathered.
HlExcept ==
    /\ caught' = "PlaywrightError"
    /\ cpc' = "hl_return"

\* The href of the ei-th matched element.
Href(e) == "https://maps/place/" \o ToString(e)

\* What one matched element yields to the extraction of 184-228: whether a
\* browser call on it raises, whether the name and link elements exist, the
\* texts read, and the lines of the address text ("" split on newlines is
\* one empty line).
ElementOutcomes(e) ==
    [error : BOOLEAN,
     name_element : BOOLEAN, name : {"", "City Hospital"},
     href_element : BOOLEAN, href : {"", Href(e)},
     address_element : BOOLEAN,
     address_lines : {<<"">>, <<"General hospital", "12 Main St">>,
                      <<"Private hospital 5 Oak Rd">>}]

\* main.py 212-215: the known category prefixes are cut from a single line.
\* Given on the lines drawn above.
RemovePrefixes(line) ==
    CASE line = "Private hospital 5 Oak Rd" -> "5 Oak Rd"
      [] OTHER -> line

\* main.py 199-216
HospitalAddress(el) ==
    IF ~el.address_element THEN ""
    ELSE IF Len(el.address_lines) >= 2 THEN el.address_lines[2]
    ELSE RemovePrefixes(el.address_lines[1])

\* The extraction with the test of the link left out.
ElementKeptNoHrefCheck(el) ==
    /\ ~el.error
    /\ el.name_element
    /\ el.name # ""

\* main.py 184-228: does the element end up appended to hospitals.  A
\* PlaywrightError anywhere in the try, a missing name or link element, or
\* an empty name or href leaves the list as it is.
ElementKept(el) ==
    /\ ~el.error
    /\ el.name_element
    /\ el.href_element
    /\ el.name # "" /\ el.href # ""

\* main.py 219-223
HospitalInfo(el) ==
    [name |-> el.name, address |-> HospitalAddress(el), href |-> el.href]

\* main.py 155: page.wait_for_selector("div[class*='Nv2PK']")
HlWaitForSelector ==
    /\ fn = "get_hospital_list" /\ cpc = "hl_wait"
    /\ \/ /\ cpc' = "hl_loop"
          /\ scroll_i' = 0
          /\ UNCHANGED caught
       \/ /\ HlExcept
          /\ UNCHANGED scroll_i
    /\ UNCHANGED <<fn, max_hospitals, max_reviews, hospital_name,
                   scroll_attempts, sel, count, found_reviews, tried,
                   used_selector, resolved, enough_at, ei, hl_hospitals,
                   reviews, vvars, mvars,
                   evars>>

\* main.py 159: the head of the scroll loop.
HlLoop ==
    /\ fn = "get_hospital_list" /\ cpc = "hl_loop"
    /\ cpc' = IF scroll_i < HospitalScrolls THEN "hl_scroll_page"
              ELSE "hl_resolve"
    /\ UNCHANGED <<fn, max_hospitals, max_reviews, hospital_name, scroll_i,
                   scroll_attempts, sel, count, found_reviews, tried,
                   used_selector, resolved, enough_at, ei, hl_hospitals,
                   reviews, caught, vvars, mvars,
                   evars>>

\* main.py 162-163: page.evaluate("window.scrollTo(...)") stands directly
\* in the outer try: a browser error raised by it leaves the loop.
HlScrollPage ==
    /\ fn = "get_hospital_list" /\ cpc = "hl_scroll_page"
    /\ scroll_attempts' = scroll_attempts + 1
    /\ \/ /\ cpc' = "hl_scroll_feed"
          /\ UNCHANGED caught
       \/ HlExcept
    /\ UNCHANGED <<fn, max_hospitals, max_reviews, hospital_name, scroll_i,
                   sel, count, found_reviews, tried, used_selector, resolved,
                   enough_at, ei, hl_hospitals, reviews, vvars, mvars,
                   evars>>

\* main.py 166-176: the container scroll; whatever it raises is dropped by
\* the bare except, so both outcomes go on to the next iteration.
HlScrollFeed ==
    /\ fn = "get_hospital_list" /\ cpc = "hl_scroll_feed"
    /\ scroll_i' = scroll_i + 1
    /\ cpc' = "hl_loop"
    /\ UNCHANGED <<fn, max_hospitals, max_reviews, hospital_name,
                   scroll_attempts, sel, count, found_reviews, tried,
                   used_selector, resolved, enough_at, ei, hl_hospitals,
                   reviews, caught, vvars, mvars,
                   evars>>

\* main.py 179-181: the listing elements are resolved and counted.
HlResolve ==
    /\ fn = "get_hospital_list" /\ cpc = "hl_resolve"
    /\ resolved' = TRUE
    /\ \/ /\ \E n \in 0..MaxCount : count' = n
          /\ ei' = 0
          /\ cpc' = "hl_extract_loop"
          /\ UNCHANGED caught
       \/ /\ HlExcept
          /\ UNCHANGED <<count, ei>>
    /\ UNCHANGED <<fn, max_hospitals, max_reviews, hospital_name, scroll_i,
                   scroll_attempts, sel, found_reviews, tried, used_selector,
                   enough_at, hl_hospitals, reviews, vvars, mvars,
                   evars>>

\* main.py 183: for i in range(min(count, max_hospitals))
HlExtractLoop ==
    /\ fn = "get_hospital_list" /\ cpc = "hl_extract_loop"
    /\ cpc' = IF ei < Min(count, max_hospitals) THEN "hl_element"
              ELSE "hl_return"
    /\ UNCHANGED <<fn, max_hospitals, max_reviews, hospital_name, scroll_i,
                   scroll_attempts, sel, count, found_reviews, tried,
                   used_selector, resolved, enough_at, ei, hl_hospitals,
                   reviews, caught, vvars, mvars,
                   evars>>

\* main.py 184-228: one element of the extraction loop.
HlElement ==
    /\ fn = "get_hospital_list" /\ cpc = "hl_element"
    /\ \E el \in ElementOutcomes(ei) :
          /\ hl_hospitals' = IF ElementKept(el)
                             THEN Append(hl_hospitals, HospitalInfo(el))
                             ELSE hl_hospitals
          /\ skipped' = IF ElementKept(el) THEN skipped
                        ELSE skipped \cup {ei}
    /\ ei' = ei + 1
    /\ cpc' = "hl_extract_loop"
    /\ UNCHANGED <<fn, max_hospitals, max_reviews, hospital_name, scroll_i,
                   scroll_attempts, sel, count, found_reviews, tried,
                   used_selector, resolved, enough_at, reviews, caught,
                   throttled, unthrottled, vvars, mvars>>

-----------------------------------------------------------------------------
(* scrape_reviews, main.py 244-488 *)

\* main.py 326: for i in range(5)
ReviewScrolls == 5

\* main.py 276-282
review_selectors ==
    <<"div[class*='jJc9Ad']", "div[data-review-id]", "div[class*='review']",
      "div[class*='rating']", "div[class*='star']">>

\* main.py 298-304
potential_review_triggers ==
    <<"button:has-text('Reviews')", "button:has-text('Review')",
      "a:has-text('Reviews')", "div:has-text('Reviews')",
      "span:has-text('Reviews')">>

\* main.py 360
probe_selectors ==
    <<"div[class*='jJc9Ad']", "div[class*='review']", "div[data-review-id]">>

\* main.py 369-376
review_element_selectors ==
    <<"div[class*='jJc9Ad']", "div[data-review-id]", "div[class*='review']",
      ".review-container", "div[class*='comment']",
      "div:has(span[aria-label*='stars'])">>

\* main.py 479-484: the outer handlers of scrape_reviews log the error and
\* try a screenshot (whose own failure is dropped); the function then
\* returns the reviews gathered so far.
SrExcept ==
    /\ caught' = "PlaywrightError"
    /\ cpc' = "sr_return"

\* main.py 132: search_google_location, which main calls right before
\* scrape_reviews (572-573), starts with rate_limiter.wait().
SearchGoogleLocationWait ==
    /\ fn = "scrape_reviews" /\ cpc = "sr_goto_wait"
    /\ RateLimiterWait
    /\ cpc' = "sr_goto"
    /\ UNCHANGED <<fn, max_hospitals, max_reviews, hospital_name, scroll_i,
                   scroll_attempts, sel, count, found_reviews, tried,
                   used_selector, resolved, enough_at, ei, hl_hospitals,
                   reviews, caught, unthrottled, skipped, vvars, mvars>>

\* main.py 134-148: page.goto(href).  When it raises, the error is logged
\* and raised again, so that scrape_reviews is not called.
SearchGoogleLocation ==
    /\ fn = "scrape_reviews" /\ cpc = "sr_goto"
    /\ RemoteAction
    /\ \/ cpc' = "sr_tab"
       \/ cpc' = "not_called"
    /\ UNCHANGED <<fn, max_hospitals, max_reviews, hospital_name, scroll_i,
                   scroll_attempts, sel, count, found_reviews, tried,
                   used_selector, resolved, enough_at, ei, hl_hospitals,
                   reviews, caught, skipped, vvars, mvars>>

\* main.py 255-264, 270-271: the Reviews tab is counted.  With no tab, or
\* with a browser error of the count (logged), found_reviews stays False.
SrTab ==
    /\ fn = "scrape_reviews" /\ cpc = "sr_tab"
    /\ \/ /\ cpc' = "sr_tab_wait"
          /\ UNCHANGED sel
       \/ /\ cpc' = "sr_direct"
          /\ sel' = 1
    /\ UNCHANGED <<fn, max_hospitals, max_reviews, hospital_name, scroll_i,
                   scroll_attempts, count, found_reviews, tried,
                   used_selector, resolved, enough_at, ei, hl_hospitals,
                   reviews, caught, evars, vvars, mvars>>

\* main.py 266: rate_limiter.wait() before the click on the tab.
SrTabWait ==
    /\ fn = "scrape_reviews" /\ cpc = "sr_tab_wait"
    /\ RateLimiterWait
    /\ cpc' = "sr_tab_click"
    /\ UNCHANGED <<fn, max_hospitals, max_reviews, hospital_name, scroll_i,
                   scroll_attempts, sel, count, found_reviews, tried,
                   used_selector, resolved, enough_at, ei, hl_hospitals,
                   reviews, caught, unthrottled, skipped, vvars, mvars>>

\* main.py 267-271: review_tab.click(); found_reviews becomes True unless
\* the click raises a browser error, which is logged.
SrTabClick ==
    /\ fn = "scrape_reviews" /\ cpc = "sr_tab_click"
    /\ RemoteAction
    /\ \/ found_reviews' = TRUE
       \/ found_reviews' = FALSE
    /\ sel' = 1
    /\ cpc' = "sr_direct"
    /\ UNCHANGED <<fn, max_hospitals, max_reviews, hospital_name, scroll_i,
                   scroll_attempts, count, tried, used_selector, resolved,
                   enough_at, ei, hl_hospitals, reviews, caught, skipped,
                   vvars, mvars>>

\* main.py 274-293: unless the tab was found, the review selectors are
\* counted in turn; the first with a match sets found_reviews and breaks.
SrDirect ==
    /\ fn = "scrape_reviews" /\ cpc = "sr_direct"
    /\ IF found_reviews \/ sel > Len(review_selectors)
       THEN /\ cpc' = "sr_trigger"
            /\ sel' = 1
            /\ UNCHANGED <<found_reviews, count>>
       ELSE \/ /\ \E n \in 1..MaxCount : count' = n
               /\ found_reviews' = TRUE
               /\ sel' = 1
               /\ cpc' = "sr_trigger"
            \/ /\ count' = 0
               /\ sel' = sel + 1
               /\ UNCHANGED <<cpc, found_reviews>>
            \/ /\ sel' = sel + 1
               /\ UNCHANGED <<cpc, found_reviews, count>>
    /\ UNCHANGED <<fn, max_hospitals, max_reviews, hospital_name, scroll_i,
                   scroll_attempts, tried, used_selector, resolved,
                   enough_at, ei, hl_hospitals, reviews, caught, vvars,
                   mvars,
                   evars>>

\* main.py 296-317: unless something was found, the triggers are counted
\* in turn and the first one present is clicked (elements.first.click() at
\* 312, with no rate_limiter.wait() before it); a browser error of the
\* count or of the click moves on to the next trigger.
SrTrigger ==
    /\ fn = "scrape_reviews" /\ cpc = "sr_trigger"
    /\ IF found_reviews \/ sel > Len(potential_review_triggers)
       THEN /\ cpc' = "sr_notfound"
            /\ UNCHANGED <<found_reviews, sel, count, throttled, unthrottled>>
       ELSE \/ /\ \E n \in 1..MaxCount : count' = n
               /\ RemoteAction
               /\ \/ /\ found_reviews' = TRUE
                     /\ cpc' = "sr_notfound"
                     /\ UNCHANGED sel
                  \/ /\ sel' = sel + 1
                     /\ UNCHANGED <<cpc, found_reviews>>
            \/ /\ count' = 0
               /\ sel' = sel + 1
               /\ UNCHANGED <<cpc, found_reviews, throttled, unthrottled>>
            \/ /\ sel' = sel + 1
               /\ UNCHANGED <<cpc, found_reviews, count, throttled,
                              unthrottled>>
    /\ UNCHANGED <<fn, max_hospitals, max_reviews, hospital_name, scroll_i,
                   scroll_attempts, tried, used_selector, resolved,
                   enough_at, ei, hl_hospitals, reviews, caught, skipped,
                   vvars, mvars>>

\* main.py 319-322: with nothing found a screenshot is taken, directly in
\* the outer try.
SrNotFound ==
    /\ fn = "scrape_reviews" /\ cpc = "sr_notfound"
    /\ \/ /\ cpc' = "sr_loop"
          /\ scroll_i' = 0
          /\ UNCHANGED caught
       \/ /\ ~found_reviews
          /\ SrExcept
          /\ UNCHANGED scroll_i
    /\ UNCHANGED <<fn, max_hospitals, max_reviews, hospital_name,
                   scroll_attempts, sel, count, found_reviews, tried,
                   used_selector, resolved, enough_at, ei, hl_hospitals,
                   reviews, vvars, mvars,
                   evars>>

\* main.py 326: the head of the scroll loop.
SrLoop ==
    /\ fn = "scrape_reviews" /\ cpc = "sr_loop"
    /\ cpc' = IF scroll_i < ReviewScrolls THEN "sr_wheel" ELSE "sr_resolve"
    /\ sel' = 1
    /\ UNCHANGED <<fn, max_hospitals, max_reviews, hospital_name, scroll_i,
                   scroll_attempts, count, found_reviews, tried,
                   used_selector, resolved, enough_at, ei, hl_hospitals,
                   reviews, caught, vvars, mvars,
                   evars>>

\* main.py 331-332: page.mouse.wheel(0, 3000) stands directly in the outer
\* try: a browser error raised by it leaves the loop.
SrWheel ==
    /\ fn = "scrape_reviews" /\ cpc = "sr_wheel"
    /\ scroll_attempts' = scroll_attempts + 1
    /\ \/ /\ cpc' = "sr_js"
          /\ UNCHANGED caught
       \/ SrExcept
    /\ UNCHANGED <<fn, max_hospitals, max_reviews, hospital_name, scroll_i,
                   sel, count, found_reviews, tried, used_selector, resolved,
                   enough_at, ei, hl_hospitals, reviews, vvars, mvars,
                   evars>>

\* main.py 335-356: the JavaScript scroll; whatever it raises is dropped
\* by the bare except, so both outcomes go on to the probe.
SrJs ==
    /\ fn = "scrape_reviews" /\ cpc = "sr_js"
    /\ sel' = 1
    /\ cpc' = "sr_probe"
    /\ UNCHANGED <<fn, max_hospitals, max_reviews, hospital_name, scroll_i,
                   scroll_attempts, count, found_reviews, tried,
                   used_selector, resolved, enough_at, ei, hl_hospitals,
                   reviews, caught, vvars, mvars,
                   evars>>

\* main.py 362-364: the probe counted at least max_reviews items: the break
\* leaves the for loop over the probe selectors (the innermost loop), and
\* the scroll loop goes on to its next iteration.
ProbeEnough ==
    /\ scroll_i' = scroll_i + 1
    /\ cpc' = "sr_loop"

\* main.py 358-366: the probe selectors are counted in turn; a browser
\* error ends the probe (bare except).
SrProbe ==
    /\ fn = "scrape_reviews" /\ cpc = "sr_probe"
    /\ IF sel > Len(probe_selectors)
       THEN /\ scroll_i' = scroll_i + 1
            /\ cpc' = "sr_loop"
            /\ UNCHANGED <<sel, count, enough_at>>
       ELSE \/ \E n \in 0..MaxCount :
                 /\ count' = n
                 /\ IF n >= max_reviews
                    THEN /\ enough_at' = IF enough_at = 0
                                         THEN scroll_attempts ELSE enough_at
                         /\ ProbeEnough
                         /\ UNCHANGED sel
                    ELSE /\ sel' = sel + 1
                         /\ UNCHANGED <<cpc, scroll_i, enough_at>>
            \/ /\ scroll_i' = scroll_i + 1
               /\ cpc' = "sr_loop"
               /\ UNCHANGED <<sel, count, enough_at>>
    /\ UNCHANGED <<fn, max_hospitals, max_reviews, hospital_name,
                   scroll_attempts, found_reviews, tried, used_selector,
                   resolved, ei, hl_hospitals, reviews, caught, vvars, mvars,
                   evars>>

\* main.py 381-391: one candidate of review_element_selectors: a match
\* (count > 0) is kept and ends the loop; no match, or a browser error of
\* the attempt, moves on to the next candidate.
ResolveStepKeepsLast(o, n) ==
    /\ tried' = Append(tried, o)
    /\ IF o = "match"
       THEN used_selector' = sel /\ count' = n
       ELSE UNCHANGED used_selector /\ count' = IF o = "none" THEN 0 ELSE count
    /\ sel' = sel + 1
    /\ UNCHANGED cpc

ResolveStep(o, n) ==
    /\ tried' = Append(tried, o)
    /\ IF o = "match"
       THEN /\ used_selector' = sel
            /\ count' = n
            /\ cpc' = "sr_check"
            /\ UNCHANGED sel
       ELSE /\ sel' = sel + 1
            /\ count' = IF o = "none" THEN 0 ELSE count
            /\ UNCHANGED <<cpc, used_selector>>

\* main.py 378-391: the loop over review_element_selectors.
SrResolve ==
    /\ fn = "scrape_reviews" /\ cpc = "sr_resolve"
    /\ resolved' = TRUE
    /\ IF sel > Len(review_element_selectors)
       THEN /\ cpc' = "sr_check"
            /\ UNCHANGED <<sel, count, tried, used_selector>>
       ELSE \E o \in {"match", "none", "error"} :
               \E n \in 1..MaxCount : ResolveStep(o, n)
    /\ UNCHANGED <<fn, max_hospitals, max_reviews, hospital_name, scroll_i,
                   scroll_attempts, found_reviews, enough_at, ei,
                   hl_hospitals, reviews, caught, vvars, mvars,
                   evars>>

\* main.py 393-395: if not review_elements: return reviews
SrCheck ==
    /\ fn = "scrape_reviews" /\ cpc = "sr_check"
    /\ cpc' = IF used_selector = 0 THEN "sr_return" ELSE "sr_count"
    /\ UNCHANGED <<fn, max_hospitals, max_reviews, hospital_name, scroll_i,
                   scroll_attempts, sel, count, found_reviews, tried,
                   used_selector, resolved, enough_at, ei, hl_hospitals,
                   reviews, caught, vvars, mvars,
                   evars>>

\* main.py 397: count = await review_elements.count()
SrCount ==
    /\ fn = "scrape_reviews" /\ cpc = "sr_count"
    /\ \/ /\ \E n \in 0..MaxCount : count' = n
          /\ ei' = 0
          /\ cpc' = "sr_extract_loop"
          /\ UNCHANGED caught
       \/ /\ SrExcept
          /\ UNCHANGED <<count, ei>>
    /\ UNCHANGED <<fn, max_hospitals, max_reviews, hospital_name, scroll_i,
                   scroll_attempts, sel, found_reviews, tried, used_selector,
                   resolved, enough_at, hl_hospitals, reviews, vvars, mvars,
                   evars>>

\* main.py 401: for i in range(min(count, max_reviews))
SrExtractLoop ==
    /\ fn = "scrape_reviews" /\ cpc = "sr_extract_loop"
    /\ cpc' = IF ei < Min(count, max_reviews) THEN "sr_element"
              ELSE "sr_return"
    /\ UNCHANGED <<fn, max_hospitals, max_reviews, hospital_name, scroll_i,
                   scroll_attempts, sel, count, found_reviews, tried,
                   used_selector, resolved, enough_at, ei, hl_hospitals,
                   reviews, caught, vvars, mvars,
                   evars>>

\* main.py 402-470: one element of the extraction loop: the record built
\* from it goes through validator.validate_review and is appended when
\* returned; a browser error skips the element.
SrElement ==
    /\ fn = "scrape_reviews" /\ cpc = "sr_element"
    /\ \E ro \in ReviewOutcomes :
          IF ro.error
          THEN UNCHANGED <<vvars, reviews>>
          ELSE /\ validate_review(ReviewData(ro, ei))
               /\ reviews' = IF Rejection(ReviewData(ro, ei), seen_reviews) = ""
                             THEN Append(reviews, ReviewData(ro, ei))
                             ELSE reviews
    /\ ei' = ei + 1
    /\ cpc' = "sr_extract_loop"
    /\ UNCHANGED <<fn, max_hospitals, max_reviews, hospital_name, scroll_i,
                   scroll_attempts, sel, count, found_reviews, tried,
                   used_selector, resolved, enough_at, hl_hospitals, caught,
                   mvars,
                   evars>>

\* One call of get_hospital_list, or the navigation to a listing followed by
\* one call of scrape_reviews; the parameters are drawn from small sets and
\* scrape_reviews is given a fresh validator.
CollectInit ==
    /\ fn \in {"get_hospital_list", "scrape_reviews"}
    /\ cpc = IF fn = "get_hospital_list" THEN "hl_wait" ELSE "sr_goto_wait"
    /\ max_hospitals \in IF fn = "get_hospital_list" THEN 1..MaxParam ELSE {0}
    /\ max_reviews \in IF fn = "scrape_reviews" THEN 1..MaxParam ELSE {0}
    /\ hospital_name = IF fn = "scrape_reviews" THEN "X" ELSE ""
    /\ scroll_i = 0 /\ scroll_attempts = 0 /\ sel = 0 /\ count = 0
    /\ found_reviews = FALSE /\ tried = <<>> /\ used_selector = 0
    /\ resolved = FALSE /\ enough_at = 0 /\ ei = 0
    /\ hl_hospitals = <<>> /\ reviews = <<>> /\ caught = ""
    /\ throttled = FALSE /\ unthrottled = FALSE /\ skipped = {}

InitCollect == ValidatorInit /\ MainIdle /\ CollectInit

NextCollect ==
    \/ HlWaitForSelector \/ HlLoop \/ HlScrollPage \/ HlScrollFeed
    \/ HlResolve \/ HlExtractLoop \/ HlElement
    \/ SearchGoogleLocationWait \/ SearchGoogleLocation
    \/ SrTab \/ SrTabWait \/ SrTabClick \/ SrDirect \/ SrTrigger \/ SrNotFound
    \/ SrLoop \/ SrWheel \/ SrJs \/ SrProbe
    \/ SrResolve \/ SrCheck \/ SrCount \/ SrExtractLoop \/ SrElement

SpecCollect == InitCollect /\ [][NextCollect]_vars

-----------------------------------------------------------------------------
(* Claims on the collectors *)

\* Neither scroll loop begins more attempts than its range allows.
ScrollAttemptsBounded ==
    /\ fn = "get_hospital_list" => scroll_attempts <= HospitalScrolls
    /\ fn = "scrape_reviews" => scroll_attempts <= ReviewScrolls

\* C8: both scroll loops end after at most 5 attempts, whether or not a
\* scroll command fails, and control then always reaches the
\* element-resolution step: a call that began scrolling does not return
\* without having resolved the elements.
C8_ScrollThenResolve ==
    /\ ScrollAttemptsBounded
    /\ (cpc \in {"hl_return", "sr_return"} /\ scroll_attempts >= 1)
          => resolved

\* C9: the review elements are those of the first candidate, in listed
\* order, with at least one match; a candidate without a match or whose
\* attempt raised a browser error is passed over and the next one tried;
\* with no candidate matching the result is None and the empty list is
\* returned.
C9_FirstMatchWins ==
    /\ Len(tried) <= Len(review_element_selectors)
    /\ cpc = "sr_resolve"
          => /\ used_selector = 0
             /\ Len(tried) + 1 = sel
             /\ \A k \in 1..Len(tried) : tried[k] # "match"
    /\ used_selector # 0
          => /\ Len(tried) = used_selector
             /\ tried[used_selector] = "match"
             /\ count > 0 \/ cpc # "sr_check"
             /\ \A k \in 1..Len(tried) : k < used_selector => tried[k] # "match"
    /\ (used_selector = 0 /\ cpc \in {"sr_check", "sr_count"})
          => /\ Len(tried) = Len(review_element_selectors)
             /\ \A k \in 1..Len(tried) : tried[k] # "match"
    /\ (fn = "scrape_reviews" /\ used_selector = 0 /\ resolved
          /\ cpc \notin {"sr_resolve", "sr_check"})
          => /\ cpc = "sr_return"
             /\ reviews = <<>>
             /\ caught = ""

\* The first candidate's attempt raised a browser error and the second
\* candidate, which matched, is the one kept.
C9_Witness ==
    /\ cpc = "sr_check"
    /\ tried = <<"error", "match">>
    /\ used_selector = 2

\* No candidate matched, two attempts raised, and the empty list is returned.
NoCandidateMatched ==
    /\ cpc = "sr_return"
    /\ Len(tried) = Len(review_element_selectors)
    /\ tried[2] = "error" /\ tried[5] = "error"
    /\ used_selector = 0 /\ reviews = <<>>

\* C10: max_reviews is an early stop of the review scroll loop: once the
\* probe has counted at least max_reviews items after a scroll attempt, no
\* further scroll attempt is begun.
C10_EarlyStop ==
    enough_at # 0 => scroll_attempts = enough_at

\* C11: every remote-affecting browser action (a page navigation, a click
\* on the Reviews tab or on a reviews trigger) is preceded by a
\* RateLimiter.wait() issued after the previous such action.
C11_EveryActionThrottled == ~unthrottled

\* The navigation and the click on the Reviews tab each follow a wait of
\* their own.
TabClickThrottled ==
    (cpc = "sr_direct" /\ found_reviews) => ~unthrottled

\* The matched element a listing was read from.
ElementOf(h) == CHOOSE e \in 0..(MaxCount + 1) : Href(e) = h.href

\* C13: get_hospital_list returns at most max_hospitals listings, read in
\* order from the first max_hospitals matched elements, each with a
\* non-empty name and a non-empty link; an element without name or link, or
\* whose extraction raises a browser error, is skipped and the loop goes on
\* to the next element; a failure of the collection as a whole returns the
\* listings gathered so far.
C13_ListingsCollected ==
    fn = "get_hospital_list" =>
        /\ Len(hl_hospitals) <= max_hospitals
        /\ \A k \in 1..Len(hl_hospitals) :
              /\ hl_hospitals[k].name # ""
              /\ hl_hospitals[k].href # ""
              /\ \E e \in 0..(Min(count, max_hospitals) - 1) :
                    /\ e < ei /\ e \notin skipped
                    /\ hl_hospitals[k].href = Href(e)
        /\ \A j, k \in 1..Len(hl_hospitals) :
              j < k => ElementOf(hl_hospitals[j]) < ElementOf(hl_hospitals[k])
        /\ skipped \subseteq 0..(ei - 1)
        /\ Len(hl_hospitals) + Cardinality(skipped) = ei
        /\ (cpc = "hl_return" /\ caught = "") => ei = Min(count, max_hospitals)
        /\ caught # "" => (cpc = "hl_return" /\ ei = 0 /\ hl_hospitals = <<>>)

\* Three elements matched and two were asked for: the first was skipped, the
\* second was kept, the third was never read.
C13_Witness ==
    /\ fn = "get_hospital_list" /\ cpc = "hl_return" /\ caught = ""
    /\ max_hospitals = 2 /\ count = 3
    /\ skipped = {0}
    /\ Len(hl_hospitals) = 1
    /\ hl_hospitals[1].href = Href(1)

\* The collection as a whole failed after the listings were resolved, and
\* the empty list is returned.
CollectionFailed ==
    /\ fn = "get_hospital_list" /\ cpc = "hl_return"
    /\ caught = "PlaywrightError" /\ resolved /\ hl_hospitals = <<>>

====
